---- MODULE Spec2Model ----
(***************************************************************************)
(* Model of backend/app/converters/__init__.py: the converter registry     *)
(* (load phase) and the four query functions get_converter,                *)
(* get_best_converter_for_file, get_all_converter_info and                 *)
(* get_unavailable_converters.                                             *)
(*                                                                         *)
(* Python values are modelled as follows.  A str that the code takes apart *)
(* (the file path) is a sequence of one-character strings; other strs are  *)
(* TLA+ strings.  The dict CONVERTERS is a sequence of [key, value] pairs  *)
(* in insertion order (get_all_converter_info iterates over it); the dict  *)
(* UNAVAILABLE_CONVERTERS, which nothing iterates over, is a function.     *)
(* The converter classes are external: what their import, their            *)
(* constructor, supports_file and get_info do is chosen by the             *)
(* environment at each use.                                                *)
(***************************************************************************)
EXTENDS Integers, Sequences, FiniteSets, TLC

VARIABLES
    CONVERTERS,              \* line 12: dict identifier -> converter class
    AVAILABLE_CONVERTERS,    \* line 15: list of identifiers
    UNAVAILABLE_CONVERTERS,  \* line 16: dict identifier -> str(e)
    imported,                \* history: outcome of each import done so far
    frame,                   \* per thread: the call in progress / last result
    tampered                 \* history: a caller changed a returned mapping

vars == <<CONVERTERS, AVAILABLE_CONVERTERS, UNAVAILABLE_CONVERTERS,
          imported, frame, tampered>>

registry == <<CONVERTERS, AVAILABLE_CONVERTERS, UNAVAILABLE_CONVERTERS>>

None == "None"

Range(s) == {s[i] : i \in DOMAIN s}

(***************************************************************************)
(* Python dict with insertion order: a sequence of [key, value] pairs.     *)
(***************************************************************************)
DictKeys(d) == {d[i].key : i \in DOMAIN d}

DictGet(d, k) == d[CHOOSE i \in DOMAIN d : d[i].key = k].value

DictSet(d, k, v) ==
    IF k \in DictKeys(d)
    THEN [i \in DOMAIN d |-> IF d[i].key = k THEN [key |-> k, value |-> v] ELSE d[i]]
    ELSE Append(d, [key |-> k, value |-> v])

(***************************************************************************)
(* Load phase, lines 19-42.                                                *)
(***************************************************************************)
\* lines 36-42: the registration calls, in declaration order
Declared == <<
    [name |-> "markitdown",   module_name |-> "markitdown_converter",   class_name |-> "MarkitdownConverter"],
    [name |-> "docling",      module_name |-> "docling_converter",      class_name |-> "DoclingConverter"],
    [name |-> "marker",       module_name |-> "marker_converter",       class_name |-> "MarkerConverter"],
    [name |-> "pypandoc",     module_name |-> "pypandoc_converter",     class_name |-> "PypandocConverter"],
    [name |-> "unstructured", module_name |-> "unstructured_converter", class_name |-> "UnstructuredConverter"],
    [name |-> "mammoth",      module_name |-> "mammoth_converter",      class_name |-> "MammothConverter"],
    [name |-> "html2text",    module_name |-> "html2text_converter",    class_name |-> "Html2textConverter"] >>

DeclaredNames == {Declared[i].name : i \in DOMAIN Declared}

\* What lines 22-23 can do for one declaration: yield the class, raise
\* ImportError (__import__: a dependency is missing), or raise another
\* Exception (getattr: the module has no such attribute).
Imported(d)    == [type |-> "ok", class |-> d.class_name]
ImportError(d) == [type |-> "ImportError",
                   msg  |-> "No module named '" \o d.module_name \o "'"]
AttributeError(d) == [type |-> "AttributeError",
                      msg  |-> "module has no attribute '" \o d.class_name \o "'"]

ImportOutcomes(d) == {Imported(d), ImportError(d), AttributeError(d)}

\* str(e)
Str(e) == e.msg

\* Mutant of RegisterLoaded: AVAILABLE_CONVERTERS.insert(0, name) in place
\* of append.
RegisterLoadedAtFront(reg, name, converter_class) ==
    [C |-> DictSet(reg.C, name, converter_class),
     A |-> <<name>> \o reg.A,
     U |-> reg.U]

\* lines 24-25: the try body after a successful import
RegisterLoaded(reg, name, converter_class) ==
    [C |-> DictSet(reg.C, name, converter_class),
     A |-> Append(reg.A, name),
     U |-> reg.U]

\* Mutant of RegisterFailed: the name is appended to AVAILABLE_CONVERTERS
\* although the import failed (the append moved out of the try body).
RegisterFailedAlsoAvailable(reg, name, e) ==
    [C |-> reg.C,
     A |-> Append(reg.A, name),
     U |-> [k \in DOMAIN reg.U \cup {name} |-> IF k = name THEN Str(e) ELSE reg.U[k]]]

\* lines 27-32: both except clauses store str(e) under the name
RegisterFailed(reg, name, e) ==
    [C |-> reg.C,
     A |-> reg.A,
     U |-> [k \in DOMAIN reg.U \cup {name} |-> IF k = name THEN Str(e) ELSE reg.U[k]]]

\* lines 19-32: _register_converter on the registry reg with import outcome o
Register(reg, d, o) ==
    IF o.type = "ok"
    THEN RegisterLoaded(reg, d.name, o.class)
    ELSE RegisterFailed(reg, d.name, o)

EmptyRegistry == [C |-> <<>>, A |-> <<>>, U |-> <<>>]

Loaded == Len(imported) = Len(Declared)

IdleFrame ==
    [op |-> "none", pc |-> "idle", converter_type |-> None,
     file |-> <<>>, ext |-> "", api_key |-> None,
     base_url |-> None, alias |-> FALSE, idx |-> 0, rejected |-> {},
     constructed |-> <<>>, result |-> [kind |-> "none"]]

Threads == {"t1", "t2"}

Init ==
    /\ CONVERTERS = EmptyRegistry.C
    /\ AVAILABLE_CONVERTERS = EmptyRegistry.A
    /\ UNAVAILABLE_CONVERTERS = EmptyRegistry.U
    /\ imported = <<>>
    /\ frame = [t \in Threads |-> IdleFrame]
    /\ tampered = FALSE

\* One module-level call of lines 36-42: the next declaration is registered;
\* o is what its import does.
NextDeclared == Declared[Len(imported) + 1]

RegisterConverter(o) ==
    /\ ~Loaded
    /\ LET d == Declared[Len(imported) + 1] IN
          LET reg == Register([C |-> CONVERTERS, A |-> AVAILABLE_CONVERTERS,
                               U |-> UNAVAILABLE_CONVERTERS], d, o) IN
          /\ CONVERTERS' = reg.C
          /\ AVAILABLE_CONVERTERS' = reg.A
          /\ UNAVAILABLE_CONVERTERS' = reg.U
          /\ imported' = Append(imported, o)
    /\ UNCHANGED <<frame, tampered>>

(***************************************************************************)
(* line 73: ext = file_path.suffix.lower().lstrip(".")                     *)
(* A path is a sequence of characters.                                     *)
(***************************************************************************)
UpperCase == <<"A","B","C","D","E","F","G","H","I","J","K","L","M",
               "N","O","P","Q","R","S","T","U","V","W","X","Y","Z">>
LowerCase == <<"a","b","c","d","e","f","g","h","i","j","k","l","m",
               "n","o","p","q","r","s","t","u","v","w","x","y","z">>

\* str.lower() on one character
LowerChar(c) ==
    IF \E i \in DOMAIN UpperCase : UpperCase[i] = c
    THEN LowerCase[CHOOSE i \in DOMAIN UpperCase : UpperCase[i] = c]
    ELSE c

\* str.lower()
Lower(s) == [i \in DOMAIN s |-> LowerChar(s[i])]

\* str.rfind(c): 0-based index of the last c, -1 when there is none
RFind(s, c) ==
    IF \E i \in DOMAIN s : s[i] = c
    THEN (CHOOSE i \in DOMAIN s : s[i] = c /\ \A j \in DOMAIN s : s[j] = c => j <= i) - 1
    ELSE -1

\* PurePath.name: the final path component
PathName(path) == SubSeq(path, RFind(path, "/") + 2, Len(path))

\* PurePath.suffix: from the last dot of the name on, when that dot is
\* neither the first nor the last character of the name; "" otherwise
Suffix(path) ==
    LET name == PathName(path)
        i    == RFind(name, ".")
    IN  IF 0 < i /\ i < Len(name) - 1 THEN SubSeq(name, i + 1, Len(name)) ELSE <<>>

\* str.lstrip(".")
RECURSIVE LStripDots(_)
LStripDots(s) == IF s # <<>> /\ Head(s) = "." THEN LStripDots(Tail(s)) ELSE s

\* the characters of a str as one TLA+ string (the dict key)
RECURSIVE AsString(_)
AsString(s) == IF s = <<>> THEN "" ELSE Head(s) \o AsString(Tail(s))

Ext(file_path) == AsString(LStripDots(Lower(Suffix(file_path))))

(***************************************************************************)
(* lines 76-104: the priority table                                        *)
(***************************************************************************)
PriorityLiteral ==
    [pdf   |-> <<"marker", "docling", "markitdown", "pypandoc", "unstructured">>,
     docx  |-> <<"mammoth", "markitdown", "docling", "pypandoc", "unstructured">>,
     doc   |-> <<"markitdown", "pypandoc", "unstructured">>,
     pptx  |-> <<"docling", "markitdown", "unstructured">>,
     ppt   |-> <<"markitdown", "unstructured">>,
     xlsx  |-> <<"docling", "markitdown", "unstructured">>,
     xls   |-> <<"markitdown", "unstructured">>,
     html  |-> <<"html2text", "markitdown", "pypandoc", "unstructured">>,
     htm   |-> <<"html2text", "markitdown", "pypandoc", "unstructured">>,
     csv   |-> <<"markitdown", "unstructured">>,
     json  |-> <<"markitdown", "pypandoc">>,
     xml   |-> <<"markitdown", "html2text", "unstructured">>,
     tex   |-> <<"pypandoc">>,
     latex |-> <<"pypandoc">>,
     rst   |-> <<"pypandoc", "unstructured">>,
     epub  |-> <<"pypandoc", "markitdown">>,
     ipynb |-> <<"pypandoc">>]

image_exts == <<"png", "jpg", "jpeg", "gif", "bmp", "webp", "tiff", "heic">>
audio_exts == <<"mp3", "wav", "m4a", "ogg", "flac">>

\* the literal, then the image loop's assignments, then the audio loop's
priority ==
    [e \in DOMAIN PriorityLiteral \cup Range(image_exts) \cup Range(audio_exts) |->
        IF e \in Range(audio_exts) THEN <<"markitdown">>
        ELSE IF e \in Range(image_exts) THEN <<"markitdown", "docling", "unstructured">>
        ELSE PriorityLiteral[e]]

(***************************************************************************)
(* Values returned or raised by the query functions.                       *)
(***************************************************************************)
Instance(class, api_key, base_url) ==
    [kind |-> "instance", class |-> class, api_key |-> api_key, base_url |-> base_url]

Raised(type, msg) == [kind |-> "error", type |-> type, msg |-> msg]

\* ", ".join(names)
RECURSIVE Join(_)
Join(names) ==
    IF names = <<>> THEN ""
    ELSE IF Len(names) = 1 THEN names[1]
    ELSE names[1] \o ", " \o Join(Tail(names))

\* Mutant of get_converter: the guard tests the declared identifiers
\* instead of CONVERTERS, so a declared converter that failed to load gets
\* past it and the lookup CONVERTERS[converter_type] raises KeyError.
get_converter_declared_guard(converter_type, api_key, base_url, ctor) ==
    IF converter_type \notin DeclaredNames
    THEN [result |-> Raised("ValueError",
                        "Converter '" \o converter_type \o "' not available. "
                        \o "Available converters: " \o Join(AVAILABLE_CONVERTERS)),
          constructed |-> <<>>]
    ELSE IF converter_type \notin DictKeys(CONVERTERS)
    THEN [result |-> Raised("KeyError", converter_type), constructed |-> <<>>]
    ELSE [result |-> IF ctor = "ok"
                     THEN Instance(DictGet(CONVERTERS, converter_type), api_key, base_url)
                     ELSE Raised("ConstructorError", converter_type),
          constructed |-> <<converter_type>>]

\* lines 45-58: get_converter against the registry; ctor is what the
\* converter's constructor does ("ok" or "raise").  Yields the value
\* returned or raised and the identifiers whose class was constructed.
get_converter(converter_type, api_key, base_url, ctor) ==
    IF converter_type \notin DictKeys(CONVERTERS)
    THEN [result |-> Raised("ValueError",
                        "Converter '" \o converter_type \o "' not available. "
                        \o "Available converters: " \o Join(AVAILABLE_CONVERTERS)),
          constructed |-> <<>>]
    ELSE [result |-> IF ctor = "ok"
                     THEN Instance(DictGet(CONVERTERS, converter_type), api_key, base_url)
                     ELSE Raised("ConstructorError", converter_type),
          constructed |-> <<converter_type>>]

(***************************************************************************)
(* The query functions.  A thread may start a call once the module is      *)
(* loaded and its previous call is over; the value returned or raised      *)
(* stays in its frame until its next call.                                 *)
(***************************************************************************)
CanCall(t) == Loaded /\ frame[t].pc \in {"idle", "done"}

Return(f, value) == [f EXCEPT !.pc = "done", !.result = value]

\* Mutant of GetConverter: the instance built is cached in CONVERTERS under
\* the identifier, in place of the class.
GetConverterCaching(t, converter_type, api_key, base_url, ctor) ==
    /\ CanCall(t)
    /\ LET r == get_converter(converter_type, api_key, base_url, ctor) IN
       /\ frame' = [frame EXCEPT ![t] =
                       Return([IdleFrame EXCEPT !.op = "get_converter",
                                                !.converter_type = converter_type,
                                                !.api_key = api_key,
                                                !.base_url = base_url,
                                                !.constructed = r.constructed],
                              r.result)]
       /\ CONVERTERS' = IF r.result.kind = "instance"
                        THEN DictSet(CONVERTERS, converter_type, "instance")
                        ELSE CONVERTERS
    /\ UNCHANGED <<AVAILABLE_CONVERTERS, UNAVAILABLE_CONVERTERS, imported, tampered>>

\* lines 45-58 as a call of its own
GetConverter(t, converter_type, api_key, base_url, ctor) ==
    /\ CanCall(t)
    /\ LET r == get_converter(converter_type, api_key, base_url, ctor) IN
       frame' = [frame EXCEPT ![t] =
                    Return([IdleFrame EXCEPT !.op = "get_converter",
                                             !.converter_type = converter_type,
                                             !.api_key = api_key,
                                             !.base_url = base_url,
                                             !.constructed = r.constructed],
                           r.result)]
    /\ UNCHANGED <<registry, imported, tampered>>

\* Mutant of BestStart: the priority table is ignored and the loop always
\* walks AVAILABLE_CONVERTERS.
BestStartIgnoringTable(t, file_path, api_key, base_url) ==
    /\ CanCall(t)
    /\ frame' = [frame EXCEPT ![t] =
                    [IdleFrame EXCEPT !.op = "get_best_converter_for_file",
                                      !.pc = "loop",
                                      !.file = file_path,
                                      !.ext = Ext(file_path),
                                      !.api_key = api_key,
                                      !.base_url = base_url,
                                      !.alias = TRUE,
                                      !.idx = 1]]
    /\ UNCHANGED <<registry, imported, tampered>>

\* lines 73-107: the call starts; converter_priority is the table's list
\* for ext, or the list object AVAILABLE_CONVERTERS itself (alias)
BestStart(t, file_path, api_key, base_url) ==
    /\ CanCall(t)
    /\ frame' = [frame EXCEPT ![t] =
                    [IdleFrame EXCEPT !.op = "get_best_converter_for_file",
                                      !.pc = "loop",
                                      !.file = file_path,
                                      !.ext = Ext(file_path),
                                      !.api_key = api_key,
                                      !.base_url = base_url,
                                      !.alias = Ext(file_path) \notin DOMAIN priority,
                                      !.idx = 1]]
    /\ UNCHANGED <<registry, imported, tampered>>

\* line 107: the list the loop of the frame walks
converter_priority(f) ==
    IF f.alias THEN AVAILABLE_CONVERTERS ELSE priority[f.ext]

\* Mutant of BestIterate: a candidate that raised or reported no support
\* is tried again instead of being passed over.
BestIterateRetrying(t, ctor, supports) ==
    LET f == frame[t] IN
    /\ f.pc = "loop"
    /\ f.idx <= Len(converter_priority(f))
    /\ LET converter_name == converter_priority(f)[f.idx]
           r == get_converter(converter_name, f.api_key, f.base_url, ctor)
           tried == [f EXCEPT !.constructed = f.constructed \o r.constructed]
       IN
       frame' = [frame EXCEPT ![t] =
                    IF converter_name \notin DictKeys(CONVERTERS)
                    THEN [f EXCEPT !.idx = f.idx + 1]
                    ELSE IF r.result.kind = "instance" /\ supports = "true"
                    THEN Return(tried, r.result)
                    ELSE [tried EXCEPT !.rejected = f.rejected \cup {converter_name}]]
    /\ UNCHANGED <<registry, imported, tampered>>

\* lines 109-117: one iteration of the loop; ctor and supports are what the
\* candidate's constructor and supports_file do
BestIterate(t, ctor, supports) ==
    LET f == frame[t] IN
    /\ f.pc = "loop"
    /\ f.idx <= Len(converter_priority(f))
    /\ LET converter_name == converter_priority(f)[f.idx]
           r == get_converter(converter_name, f.api_key, f.base_url, ctor)
           tried == [f EXCEPT !.constructed = f.constructed \o r.constructed]
       IN
       frame' = [frame EXCEPT ![t] =
                    IF converter_name \notin DictKeys(CONVERTERS)
                    THEN [f EXCEPT !.idx = f.idx + 1]
                    ELSE IF r.result.kind = "instance" /\ supports = "true"
                    THEN Return(tried, r.result)
                    ELSE [tried EXCEPT !.idx = f.idx + 1,
                                       !.rejected = f.rejected \cup {converter_name}]]
    /\ UNCHANGED <<registry, imported, tampered>>

\* Mutant of BestFallback: AVAILABLE_CONVERTERS[0] is read without the test
\* of line 120, so an empty list raises IndexError.
BestFallbackUnguarded(t, ctor) ==
    LET f == frame[t] IN
    /\ f.pc = "loop"
    /\ f.idx > Len(converter_priority(f))
    /\ frame' = [frame EXCEPT ![t] =
                    IF AVAILABLE_CONVERTERS # <<>>
                    THEN LET r == get_converter(AVAILABLE_CONVERTERS[1],
                                                f.api_key, f.base_url, ctor)
                         IN  Return([f EXCEPT !.constructed = f.constructed \o r.constructed],
                                    r.result)
                    ELSE Return(f, Raised("IndexError", "list index out of range"))]
    /\ UNCHANGED <<registry, imported, tampered>>

\* lines 119-123: the loop is over without a return
BestFallback(t, ctor) ==
    LET f == frame[t] IN
    /\ f.pc = "loop"
    /\ f.idx > Len(converter_priority(f))
    /\ frame' = [frame EXCEPT ![t] =
                    IF AVAILABLE_CONVERTERS # <<>>
                    THEN LET r == get_converter(AVAILABLE_CONVERTERS[1],
                                                f.api_key, f.base_url, ctor)
                         IN  Return([f EXCEPT !.constructed = f.constructed \o r.constructed],
                                    r.result)
                    ELSE Return(f, Raised("ValueError", "No converters available"))]
    /\ UNCHANGED <<registry, imported, tampered>>

\* lines 126-134; info is what the classes' get_info does
get_all_converter_info(info) ==
    IF info = "raise" /\ CONVERTERS # <<>>
    THEN Raised("InfoError", CONVERTERS[1].key)
    ELSE [kind  |-> "list",
          value |-> [i \in DOMAIN CONVERTERS |->
                        [id |-> CONVERTERS[i].key, info |-> CONVERTERS[i].value]]]

GetAllConverterInfo(t, info) ==
    /\ CanCall(t)
    /\ frame' = [frame EXCEPT ![t] =
                    Return([IdleFrame EXCEPT !.op = "get_all_converter_info"],
                           get_all_converter_info(info))]
    /\ UNCHANGED <<registry, imported, tampered>>

\* Mutant of get_unavailable_converters: the dict itself is returned, not a
\* copy.
get_unavailable_converters_no_copy ==
    [kind |-> "dict", ref |-> "global", value |-> UNAVAILABLE_CONVERTERS, mutations |-> 0]

\* lines 137-139: dict.copy() yields a new dict object with the same items;
\* ref tells which object the returned reference designates
get_unavailable_converters ==
    [kind |-> "dict", ref |-> "copy", value |-> UNAVAILABLE_CONVERTERS, mutations |-> 0]

GetUnavailableConverters(t) ==
    /\ CanCall(t)
    /\ frame' = [frame EXCEPT ![t] =
                    Return([IdleFrame EXCEPT !.op = "get_unavailable_converters"],
                           get_unavailable_converters)]
    /\ UNCHANGED <<registry, imported, tampered>>

\* The caller changes the dict it was handed: how = "pop" removes key k,
\* how = "set" stores a reason under k.  The change is made to the object
\* the reference designates.
MaxMutations == 2

DictPop(d, k) == [x \in DOMAIN d \ {k} |-> d[x]]
DictStore(d, k, v) == [x \in DOMAIN d \cup {k} |-> IF x = k THEN v ELSE d[x]]

CallerMutates(t, k, how) ==
    LET f == frame[t]
        d == IF f.result.ref = "global" THEN UNAVAILABLE_CONVERTERS ELSE f.result.value
        e == IF how = "pop" THEN DictPop(d, k) ELSE DictStore(d, k, "tampered")
    IN
    /\ f.pc = "done"
    /\ f.result.kind = "dict"
    /\ f.result.mutations < MaxMutations
    /\ e # d
    /\ frame' = [frame EXCEPT ![t].result.value = e,
                              ![t].result.mutations = f.result.mutations + 1]
    /\ UNAVAILABLE_CONVERTERS' =
          IF f.result.ref = "global" THEN e ELSE UNAVAILABLE_CONVERTERS
    /\ tampered' = TRUE
    /\ UNCHANGED <<CONVERTERS, AVAILABLE_CONVERTERS, imported>>

(***************************************************************************)
(* Inputs.                                                                 *)
(***************************************************************************)
Files ==
    { <<"a", ".", "p", "d", "f">>,           \* a.pdf
      <<"A", ".", "P", "D", "F">>,           \* A.PDF
      <<"r", ".", "d", "o", "c", "x">>,      \* r.docx
      <<"p", ".", "h", "t", "m", "l">>,      \* p.html
      <<"s", ".", "m", "p", "3">>,           \* s.mp3
      <<"n", ".", "t", "x", "t">>,           \* n.txt
      <<"R", "E", "A", "D", "M", "E">>,      \* README
      <<"d", "/", ".", "p", "d", "f">> }     \* d/.pdf

ConverterTypes == DeclaredNames \cup {"tesseract"}
Credentials == {<<None, None>>, <<"sk-key", "http://llm">>}
CtorOutcomes     == {"ok", "raise"}
SupportsOutcomes == {"true", "false", "raise"}
InfoOutcomes     == {"ok", "raise"}
MutatedKeys      == {"markitdown", "html2text", "tesseract"}

Caller == "t1"

\* The load phase, where an import succeeds or raises ImportError, and then
\* the calls of one caller.
Next ==
    \/ /\ ~Loaded
       /\ \E o \in {Imported(NextDeclared), ImportError(NextDeclared)} : RegisterConverter(o)
    \/ \E c \in ConverterTypes, k \in Credentials, ctor \in CtorOutcomes :
          GetConverter(Caller, c, k[1], k[2], ctor)
    \/ \E p \in Files, k \in Credentials : BestStart(Caller, p, k[1], k[2])
    \/ \E ctor \in CtorOutcomes, s \in SupportsOutcomes : BestIterate(Caller, ctor, s)
    \/ \E ctor \in CtorOutcomes : BestFallback(Caller, ctor)
    \/ \E i \in InfoOutcomes : GetAllConverterInfo(Caller, i)
    \/ GetUnavailableConverters(Caller)
    \/ \E k \in MutatedKeys, how \in {"pop", "set"} : CallerMutates(Caller, k, how)

Spec == Init /\ [][Next]_vars

\* The load phase alone, with every import outcome.
NextLoad ==
    /\ ~Loaded
    /\ \E o \in ImportOutcomes(NextDeclared) : RegisterConverter(o)

SpecLoad == Init /\ [][NextLoad]_vars

\* The load phase and then the four query functions called from two
\* threads, their steps interleaved.
FilesMT == { <<"a", ".", "p", "d", "f">>, <<"n", ".", "t", "x", "t">> }
ConverterTypesMT == {"marker", "tesseract"}

NextMT ==
    \/ /\ ~Loaded
       /\ \E o \in {Imported(NextDeclared), ImportError(NextDeclared)} : RegisterConverter(o)
    \/ \E t \in Threads :
          \/ \E c \in ConverterTypesMT, ctor \in CtorOutcomes :
                GetConverter(t, c, None, None, ctor)
          \/ \E p \in FilesMT : BestStart(t, p, None, None)
          \/ \E ctor \in CtorOutcomes, s \in SupportsOutcomes : BestIterate(t, ctor, s)
          \/ \E ctor \in CtorOutcomes : BestFallback(t, ctor)
          \/ \E i \in InfoOutcomes : GetAllConverterInfo(t, i)
          \/ GetUnavailableConverters(t)

SpecMT == Init /\ [][NextMT]_vars


(***************************************************************************)
(* Properties.                                                             *)
(***************************************************************************)
\* position of an identifier in the declaration order (lines 36-42)
DeclIndex(name) == CHOOSE i \in DOMAIN Declared : Declared[i].name = name

\* the declarations run so far, by outcome
Ran       == 1 .. Len(imported)
RanOk     == {i \in Ran : imported[i].type = "ok"}
RanFailed == {i \in Ran : imported[i].type # "ok"}

\* the registry as the registration calls run so far leave it
RECURSIVE LoadPrefix(_)
LoadPrefix(n) ==
    IF n = 0 THEN EmptyRegistry
    ELSE Register(LoadPrefix(n - 1), Declared[n], imported[n])

RegistryAfterLoad == LoadPrefix(Len(imported))

Count(seq, x) == Cardinality({i \in DOMAIN seq : seq[i] = x})

\* C1: after the load phase (and after each registration call), available
\* and unavailable identifiers are disjoint and together are exactly the
\* declared identifiers whose registration ran; each converter whose import
\* failed is a key of UNAVAILABLE_CONVERTERS with str(e) as its reason and
\* is not available; each converter whose import succeeded is available,
\* whatever failed before it.
C1_AvailabilityPartition ==
    /\ Range(AVAILABLE_CONVERTERS) \cap DOMAIN UNAVAILABLE_CONVERTERS = {}
    /\ Range(AVAILABLE_CONVERTERS) \cup DOMAIN UNAVAILABLE_CONVERTERS
          = {Declared[i].name : i \in Ran}
    /\ \A i \in RanFailed :
          /\ Declared[i].name \in DOMAIN UNAVAILABLE_CONVERTERS
          /\ UNAVAILABLE_CONVERTERS[Declared[i].name] = Str(imported[i])
          /\ Declared[i].name \notin Range(AVAILABLE_CONVERTERS)
    /\ \A i \in RanOk : Declared[i].name \in Range(AVAILABLE_CONVERTERS)
    /\ Loaded => Range(AVAILABLE_CONVERTERS) \cup DOMAIN UNAVAILABLE_CONVERTERS
                    = DeclaredNames

\* C1 witness: the load phase is over, one converter failed with
\* ImportError, one with another exception, and a converter declared after
\* both is available.
C1_Witness ==
    /\ Loaded
    /\ \E i, j, k \in Ran :
          /\ i < k /\ j < k
          /\ imported[i].type = "ImportError"
          /\ imported[j].type = "AttributeError"
          /\ imported[k].type = "ok"
          /\ Declared[k].name \in Range(AVAILABLE_CONVERTERS)
          /\ {Declared[i].name, Declared[j].name} \subseteq DOMAIN UNAVAILABLE_CONVERTERS

\* C10: after the load phase (and after each registration call) the keys
\* of CONVERTERS are the identifiers in AVAILABLE_CONVERTERS, which holds
\* no identifier twice and lists exactly the converters that loaded, in
\* declaration order; so its first element is the earliest-declared
\* converter that loaded.
C10_RegistryMatchesAvailable ==
    /\ DictKeys(CONVERTERS) = Range(AVAILABLE_CONVERTERS)
    /\ \A n \in Range(AVAILABLE_CONVERTERS) : Count(AVAILABLE_CONVERTERS, n) = 1
    /\ \A n \in DictKeys(CONVERTERS) : Cardinality({i \in DOMAIN CONVERTERS : CONVERTERS[i].key = n}) = 1
    /\ Range(AVAILABLE_CONVERTERS) = {Declared[i].name : i \in RanOk}
    /\ \A i, j \in DOMAIN AVAILABLE_CONVERTERS :
          i < j => DeclIndex(AVAILABLE_CONVERTERS[i]) < DeclIndex(AVAILABLE_CONVERTERS[j])
    /\ AVAILABLE_CONVERTERS # <<>> =>
          /\ DeclIndex(AVAILABLE_CONVERTERS[1]) \in RanOk
          /\ \A i \in RanOk : DeclIndex(AVAILABLE_CONVERTERS[1]) <= i

\* C10 witness: the load phase is over, the first declared converter
\* failed and at least two later ones loaded.
C10_Witness ==
    /\ Loaded
    /\ imported[1].type # "ok"
    /\ Len(AVAILABLE_CONVERTERS) >= 2
    /\ AVAILABLE_CONVERTERS[1] # "markitdown"


(***************************************************************************)
(* Properties of the query functions.                                      *)
(***************************************************************************)
BestFrames == {t \in Threads : frame[t].op = "get_best_converter_for_file"}
BestDone   == {t \in BestFrames : frame[t].pc = "done"}

\* the call of the frame returned from inside the loop (line 115)
ReturnedFromLoop(f) ==
    /\ f.op = "get_best_converter_for_file"
    /\ f.pc = "done"
    /\ f.idx <= Len(converter_priority(f))

\* the instance get_converter builds for an available identifier
InstanceOf(name, f) == Instance(DictGet(CONVERTERS, name), f.api_key, f.base_url)

Listed(f) == Ext(f.file) \in DOMAIN priority

\* C2 (as claimed): a finished get_best_converter_for_file has raised only
\* if AVAILABLE_CONVERTERS is empty; with a converter available it returned
\* an instance.
C2_NeverPropagates ==
    \A t \in BestDone :
        frame[t].result.kind = "error" => AVAILABLE_CONVERTERS = <<>>

\* C3: for a file whose extension is in the priority table, a call that
\* returns from the loop returns the instance (built with the call's
\* credentials) of the first identifier of that extension's list that is
\* available and was not found failing or unsupporting; every identifier
\* before it is unavailable or was tried and rejected; the loop is left
\* without a return only when every listed identifier is unavailable or
\* rejected.  For "pdf" with the five listed converters available and none
\* rejected, the result is a marker instance.
C3_FirstQualifyingListed ==
    \A t \in BestFrames :
        LET f == frame[t]
            P == priority[Ext(f.file)]
            Skipped(i) == P[i] \notin Range(AVAILABLE_CONVERTERS) \/ P[i] \in f.rejected
        IN  Listed(f) =>
            /\ f.rejected \subseteq Range(P) \cap Range(AVAILABLE_CONVERTERS)
            /\ ReturnedFromLoop(f) =>
                  \E i \in DOMAIN P :
                      /\ ~Skipped(i)
                      /\ \A j \in 1 .. i - 1 : Skipped(j)
                      /\ f.result = InstanceOf(P[i], f)
            /\ (f.pc = "done" /\ ~ReturnedFromLoop(f)) => \A i \in DOMAIN P : Skipped(i)
            /\ ( /\ f.pc = "done"
                 /\ Ext(f.file) = "pdf"
                 /\ Range(P) \subseteq Range(AVAILABLE_CONVERTERS)
                 /\ f.rejected = {} )
               => f.result.kind = "instance" /\ f.result.class = "MarkerConverter"

\* C3 witness: a .PDF file, all seven converters available, the call
\* returned a marker instance from the loop.
C3_Witness ==
    \E t \in BestDone :
        /\ frame[t].file = <<"A", ".", "P", "D", "F">>
        /\ Len(AVAILABLE_CONVERTERS) = 7
        /\ frame[t].rejected = {}
        /\ frame[t].result.kind = "instance"
        /\ frame[t].result.class = "MarkerConverter"

\* C4 (as claimed): for a file whose extension is not in the table, with
\* exactly two converters available in load order [A, B], a finished call
\* yields an instance of A if A reported support, else of B if B reported
\* support, else of A.
C4_UnlistedTwoAvailable ==
    \A t \in BestDone :
        LET f == frame[t]
            A == AVAILABLE_CONVERTERS[1]
            B == AVAILABLE_CONVERTERS[2]
        IN  (~Listed(f) /\ Len(AVAILABLE_CONVERTERS) = 2) =>
            f.result = IF A \notin f.rejected THEN InstanceOf(A, f)
                       ELSE IF B \notin f.rejected THEN InstanceOf(B, f)
                       ELSE InstanceOf(A, f)


\* the registry is as the load phase left it
RegistryAsLoaded ==
    [C |-> CONVERTERS, A |-> AVAILABLE_CONVERTERS, U |-> UNAVAILABLE_CONVERTERS]
        = RegistryAfterLoad

GetConverterDone == {t \in Threads : frame[t].op = "get_converter" /\ frame[t].pc = "done"}

UnknownConverter(converter_type) ==
    Raised("ValueError",
           "Converter '" \o converter_type \o "' not available. Available converters: "
           \o Join(AVAILABLE_CONVERTERS))

\* C5: get_converter with an identifier that is not available raises the
\* ValueError whose message names the identifier and lists the available
\* identifiers, whatever api_key and base_url are; it constructs nothing and
\* the registry is as the load phase left it.
C5_UnknownConverterRejected ==
    \A t \in GetConverterDone :
        LET f == frame[t] IN
        f.converter_type \notin Range(AVAILABLE_CONVERTERS) =>
            /\ f.result = UnknownConverter(f.converter_type)
            /\ f.constructed = <<>>
            /\ RegistryAsLoaded

\* C5 witness: a declared converter that failed to load was asked for with
\* credentials, two others being available.
C5_Witness ==
    \E t \in GetConverterDone :
        /\ frame[t].converter_type = "marker"
        /\ "marker" \in DOMAIN UNAVAILABLE_CONVERTERS
        /\ frame[t].api_key = "sk-key"
        /\ AVAILABLE_CONVERTERS = <<"markitdown", "docling">>
        /\ frame[t].result.kind = "error"
        /\ frame[t].result.msg
             = "Converter 'marker' not available. Available converters: markitdown, docling"

\* C6: with no converter available, a finished get_best_converter_for_file
\* raised ValueError("No converters available") and a finished
\* get_converter raised the unknown-converter ValueError.
C6_NothingAvailable ==
    (Loaded /\ AVAILABLE_CONVERTERS = <<>>) =>
        /\ \A t \in BestDone :
              frame[t].result = Raised("ValueError", "No converters available")
        /\ \A t \in GetConverterDone :
              frame[t].result = UnknownConverter(frame[t].converter_type)

\* C6 witness: nothing loaded and a call for a .pdf file has raised.
C6_Witness ==
    /\ Loaded
    /\ AVAILABLE_CONVERTERS = <<>>
    /\ \E t \in BestDone : frame[t].ext = "pdf" /\ frame[t].result.kind = "error"

FreshMappings ==
    {t \in Threads : /\ frame[t].op = "get_unavailable_converters"
                     /\ frame[t].pc = "done"
                     /\ frame[t].result.mutations = 0}

\* C7: once a caller has changed a mapping get_unavailable_converters
\* returned, UNAVAILABLE_CONVERTERS is still the mapping the load phase
\* established, and so is every mapping returned afterwards.
C7_ReturnsCopy ==
    (Loaded /\ tampered) =>
        /\ UNAVAILABLE_CONVERTERS = RegistryAfterLoad.U
        /\ \A t \in FreshMappings : frame[t].result.value = RegistryAfterLoad.U

\* C7 witness: after a caller changed a returned mapping, a new call has
\* returned, with at least one converter unavailable.
C7_Witness ==
    /\ tampered
    /\ UNAVAILABLE_CONVERTERS # <<>>
    /\ FreshMappings # {}

\* C8: after the load phase, whatever calls the threads have made and are
\* making, CONVERTERS, AVAILABLE_CONVERTERS and UNAVAILABLE_CONVERTERS are
\* as the load phase left them.
C8_ReadOnlyAfterLoad == Loaded => RegistryAsLoaded

\* C8 witness: one thread is inside the loop of
\* get_best_converter_for_file with a rejected candidate while the other
\* has got an instance from get_converter.
C8_Witness ==
    /\ frame["t1"].pc = "loop"
    /\ frame["t1"].rejected # {}
    /\ frame["t2"].op = "get_converter"
    /\ frame["t2"].result.kind = "instance"

\* C9 (as claimed): within one call of get_best_converter_for_file every
\* identifier is constructed at most once.
C9_ConstructedAtMostOnce ==
    \A t \in BestFrames :
        \A n \in DeclaredNames : Count(frame[t].constructed, n) <= 1

\* C9 (amended): within one call the loop constructs every identifier at
\* most once; only the final fallback constructs an identifier a second
\* time, and that identifier is the first available converter.
C9_OnlyFallbackConstructsAgain ==
    \A t \in BestFrames :
        LET f == frame[t]
            byLoop == IF f.pc = "done" /\ ~ReturnedFromLoop(f) /\ f.constructed # <<>>
                      THEN SubSeq(f.constructed, 1, Len(f.constructed) - 1)
                      ELSE f.constructed
        IN  /\ \A n \in DeclaredNames : Count(byLoop, n) <= 1
            /\ \A n \in DeclaredNames :
                  Count(f.constructed, n) > 1 =>
                      /\ n = AVAILABLE_CONVERTERS[1]
                      /\ f.pc = "done"
                      /\ ~ReturnedFromLoop(f)
                      /\ Count(f.constructed, n) = 2

\* C9 witness: the first available converter was rejected in the loop and
\* constructed again by the fallback.
C9_Witness ==
    \E t \in BestDone :
        /\ AVAILABLE_CONVERTERS # <<>>
        /\ Count(frame[t].constructed, AVAILABLE_CONVERTERS[1]) = 2
        /\ AVAILABLE_CONVERTERS[1] \in frame[t].rejected

====
